---- MODULE Spec2Model ----
(***************************************************************************)
(* Model of src/main.py: the Azure Blob Storage demo workflow.             *)
(*                                                                         *)
(* main() runs eight steps in sequence against two collaborators: the      *)
(* local filesystem (fs) and one blob container of the storage account     *)
(* (containerExists, blobs).  Every call that can raise is given both      *)
(* outcomes: the storage service answers according to the container's      *)
(* state or with a service error, and opening a local file may fail.       *)
(***************************************************************************)
EXTENDS Integers, Sequences, FiniteSets, TLC

\* ------------------------------------------------------------------ bounds

\* Number of distinct contents a file or blob may hold before the run.
MaxOld == 1
\* Number of calls of upload_files_to_blob in the repeated-upload specification.
MaxRuns == 2

\* --------------------------------------------------------------- constants

Placeholder == "<your_storage_account_name>"
\* An account URL as the pieces around the account name.
DefaultUrl == <<"https://", Placeholder, ".blob.core.windows.net/">>
ValidUrl == <<"https://", "acct", ".blob.core.windows.net/">>
PathPlaceholderUrl == <<"https://", "acct", ".blob.core.windows.net/", Placeholder>>
AccountUrls == {DefaultUrl, ValidUrl, PathPlaceholderUrl}
\* The URLs that contain the placeholder token, listed one by one.
PlaceholderUrls == {DefaultUrl, PathPlaceholderUrl}

UploadFiles == <<"sample1.txt", "sample2.docx">>
ExpectedFiles ==
    <<"sample1.txt", "sample2.docx", "downloaded_sample1.txt", "downloaded_sample2.docx">>
FallbackFile == "sample2.txt"
\* The files create_sample_files may write.
SampleFiles == {"sample1.txt", "sample2.docx", FallbackFile}
LocalFiles == SampleFiles \cup {"downloaded_sample1.txt", "downloaded_sample2.docx"}

Empty == ""
Sample1Text == "This is a sample text file for Azure Blob Storage testing."
DocxBytes == "docx[Azure Blob Demo|This is a sample Word document for blob upload testing.]"
FallbackText == "Sample document content (as .txt since docx library not available)"
OldContent(i) == "old" \o ToString(i)
OldContents == {OldContent(i) : i \in 1..MaxOld}
Absent == "<absent>"

\* Blob names a container found at the start of a run may hold, in the
\* lexicographic order list_blobs reports names in.
BlobOrder == <<"notes.txt", "sample1.txt", "sample2.docx">>
PreNames == {"notes.txt", "sample1.txt"}

Range(s) == {s[i] : i \in DOMAIN s}

\* ------------------------------------------------------------------- state

VARIABLES
    account_url,        \* main's account_url
    docx_available,     \* whether `from docx import Document` succeeds
    fs,                 \* local filesystem: existing file name -> content
    containerExists,    \* the container 'mytestcontainer' exists in the account
    blobs,              \* the container's blobs: records [name, content]
    pc,                 \* position in main
    idx,                \* position of the current upload / download loop
    run,                \* number of the current call of upload_files_to_blob
    successful_uploads,
    blob_names,
    downloaded_files,
    deletion_success,
    file_status,
    result,             \* "running", "None" or "summary"
    log,                \* storage client calls made so far: [op, item, res]
    fs0,                \* history: the filesystem before the run
    preNames,           \* history: names of the blobs held before the run
    uploadedData,       \* history: name -> bytes read at its last successful upload
    missingAtUpload,    \* history: names the upload step found absent
    dlAttempts,         \* history: names the download loop body ran for
    fsError             \* history: a local open failed in the upload or download step

vars == <<account_url, docx_available, fs, containerExists, blobs, pc, idx, run,
          successful_uploads, blob_names, downloaded_files, deletion_success,
          file_status, result, log, fs0, preNames, uploadedData, missingAtUpload,
          dlAttempts, fsError>>

config == <<account_url, docx_available>>
summary == <<successful_uploads, blob_names, downloaded_files, deletion_success, file_status>>
storage == <<containerExists, blobs>>
history == <<fs0, preNames, uploadedData, missingAtUpload, dlAttempts, fsError>>

\* -------------------------------------------------------------- filesystem

FileExists(f, name) == name \in DOMAIN f

WriteFile(f, name, content) ==
    [x \in DOMAIN f \cup {name} |-> IF x = name THEN content ELSE f[x]]

ReadBytes(f, name) == f[name]

\* ----------------------------------------------------------------- storage

BlobsNamed(b, name) == {x \in b : x.name = name}

CreateRes(exists, fail) ==
    IF exists THEN "ResourceExistsError" ELSE IF fail THEN "ServiceError" ELSE "ok"

UploadRes(exists, b, name, overwrite, fail) ==
    IF ~exists THEN "ResourceNotFoundError"
    ELSE IF fail THEN "ServiceError"
    ELSE IF BlobsNamed(b, name) # {} /\ ~overwrite THEN "ResourceExistsError"
    ELSE "ok"

PutBlob(b, name, data, overwrite) ==
    (IF overwrite THEN b \ BlobsNamed(b, name) ELSE b) \cup {[name |-> name, content |-> data]}

ListRes(exists, fail) ==
    IF ~exists THEN "ResourceNotFoundError" ELSE IF fail THEN "ServiceError" ELSE "ok"

\* Variant: the listing loop stops after the first blob.
ListNamesFirst(b) ==
    LET all == SelectSeq(BlobOrder, LAMBDA n : BlobsNamed(b, n) # {})
    IN IF all = <<>> THEN <<>> ELSE <<Head(all)>>

ListNames(b) == SelectSeq(BlobOrder, LAMBDA n : BlobsNamed(b, n) # {})

DownloadRes(exists, b, name, fail) ==
    IF ~exists \/ BlobsNamed(b, name) = {} THEN "ResourceNotFoundError"
    ELSE IF fail THEN "ServiceError"
    ELSE "ok"

BlobContent(b, name) == (CHOOSE x \in BlobsNamed(b, name) : TRUE).content

DeleteRes(exists, fail) ==
    IF ~exists THEN "ResourceNotFoundError" ELSE IF fail THEN "ServiceError" ELSE "ok"

Call(op, item, res) == [op |-> op, item |-> item, res |-> res]

\* ---------------------------------------------------------------- initial

InitFiles ==
    {c \in [LocalFiles -> {Absent, Sample1Text, DocxBytes} \cup OldContents] :
        /\ c["sample1.txt"] # DocxBytes
        /\ c["sample2.docx"] # Sample1Text
        /\ \A f \in LocalFiles \ Range(UploadFiles) : c[f] \in {Absent, OldContent(1)}}

FsOf(c) == [f \in {g \in LocalFiles : c[g] # Absent} |-> c[f]]

\* The container before the run: absent, or present with blobs of earlier runs.
InitStorage ==
    /\ containerExists \in BOOLEAN
    /\ \E names \in SUBSET PreNames :
          blobs = IF containerExists
                  THEN {[name |-> n, content |-> OldContent(1)] : n \in names}
                  ELSE {}
    /\ preNames = {x.name : x \in blobs}

InitRun ==
    /\ fs0 = fs
    /\ idx = 1
    /\ run = 1
    /\ successful_uploads = <<>>
    /\ blob_names = <<>>
    /\ downloaded_files = <<>>
    /\ deletion_success = FALSE
    /\ file_status = <<>>
    /\ result = "running"
    /\ log = <<>>
    /\ uploadedData = <<>>
    /\ missingAtUpload = {}
    /\ dlAttempts = <<>>
    /\ fsError = FALSE

Init ==
    /\ account_url \in AccountUrls
    /\ docx_available \in BOOLEAN
    /\ \E c \in InitFiles : fs = FsOf(c)
    /\ InitStorage
    /\ pc = "sample1"
    /\ InitRun

\* ------------------------------------------------------------------- steps

\* main's `except Exception`: the run ends without a summary.
Abort ==
    /\ pc' = "done"
    /\ result' = "None"

\* Variant: the sample file is written whether or not it exists.
NeedsCreateAlways(f, name) == TRUE

NeedsCreate(f, name) == ~FileExists(f, name)

\* Step 1, first half: sample1.txt.
CreateSample1 ==
    /\ pc = "sample1"
    /\ \E ioerr \in BOOLEAN :
          IF ~NeedsCreate(fs, "sample1.txt")
          THEN fs' = fs /\ pc' = "sample2" /\ result' = result
          ELSE IF ioerr
          THEN fs' = fs /\ Abort
          ELSE /\ fs' = WriteFile(fs, "sample1.txt", Sample1Text)
               /\ pc' = "sample2"
               /\ result' = result
    /\ UNCHANGED <<config, storage, idx, run, summary, log, history>>

\* Step 1, second half: sample2.docx, or sample2.txt when docx cannot be imported.
CreateSample2 ==
    /\ pc = "sample2"
    /\ \E ioerr \in BOOLEAN :
          IF ~NeedsCreate(fs, "sample2.docx")
          THEN fs' = fs /\ pc' = "configure" /\ result' = result
          ELSE IF ioerr
          THEN fs' = fs /\ Abort
          ELSE /\ fs' = IF docx_available
                        THEN WriteFile(fs, "sample2.docx", DocxBytes)
                        ELSE WriteFile(fs, FallbackFile, FallbackText)
               /\ pc' = "configure"
               /\ result' = result
    /\ UNCHANGED <<config, storage, idx, run, summary, log, history>>

\* Variant: only the account-name position of the URL is looked at.
ContainsPlaceholderHost(url) == url[2] = Placeholder

ContainsPlaceholder(url) == \E i \in 1..Len(url) : url[i] = Placeholder

\* Step 2.
Configure ==
    /\ pc = "configure"
    /\ IF ContainsPlaceholder(account_url)
       THEN Abort
       ELSE pc' = "create" /\ result' = result
    /\ UNCHANGED <<config, fs, storage, idx, run, summary, log, history>>

\* Step 3.  get_container_client only builds a client object for the fixed name
\* 'mytestcontainer'; create_container is the call that can raise.
CreateBlobContainer ==
    /\ pc = "create"
    /\ \E fail \in BOOLEAN :
          LET res == CreateRes(containerExists, fail) IN
          /\ log' = log \o <<Call("get_container_client", "mytestcontainer", "ok"),
                             Call("create_container", "mytestcontainer", res)>>
          /\ containerExists' = (containerExists \/ res = "ok")
          /\ blobs' = blobs
    /\ pc' = "upload"
    /\ idx' = 1
    /\ UNCHANGED <<config, fs, run, summary, result, history>>

\* Variant: upload_blob without overwrite.
OverwriteOff == FALSE

Overwrite == TRUE

\* Step 4, one iteration of the loop over upload_files.
UploadFile ==
    /\ pc = "upload"
    /\ idx <= Len(UploadFiles)
    /\ LET local_file == UploadFiles[idx] IN
       \E ioerr \in BOOLEAN, fail \in BOOLEAN :
          IF ~FileExists(fs, local_file)
          THEN /\ missingAtUpload' = missingAtUpload \cup {local_file}
               /\ UNCHANGED <<storage, successful_uploads, log, uploadedData, fsError>>
          ELSE IF ioerr
          THEN /\ fsError' = TRUE
               /\ UNCHANGED <<storage, successful_uploads, log, uploadedData, missingAtUpload>>
          ELSE LET data == ReadBytes(fs, local_file)
                   res == UploadRes(containerExists, blobs, local_file, Overwrite, fail)
               IN
               /\ log' = Append(log, Call("upload_blob", local_file, res))
               /\ IF res = "ok"
                  THEN /\ blobs' = PutBlob(blobs, local_file, data, Overwrite)
                       /\ successful_uploads' = Append(successful_uploads, local_file)
                       /\ uploadedData' =
                             [n \in DOMAIN uploadedData \cup {local_file} |->
                                 IF n = local_file THEN data ELSE uploadedData[n]]
                  ELSE UNCHANGED <<blobs, successful_uploads, uploadedData>>
               /\ UNCHANGED <<containerExists, missingAtUpload, fsError>>
    /\ idx' = idx + 1
    /\ UNCHANGED <<config, fs, pc, run, blob_names, downloaded_files, deletion_success,
                   file_status, result, fs0, preNames, dlAttempts>>

\* upload_files_to_blob returns; main goes on to the listing.
UploadReturn ==
    /\ pc = "upload"
    /\ idx > Len(UploadFiles)
    /\ pc' = "list"
    /\ UNCHANGED <<config, fs, storage, idx, run, summary, result, log, history>>

\* Step 5.
ListBlobs ==
    /\ pc = "list"
    /\ \E fail \in BOOLEAN :
          LET res == ListRes(containerExists, fail) IN
          /\ log' = Append(log, Call("list_blobs", "mytestcontainer", res))
          /\ blob_names' = IF res = "ok" THEN ListNames(blobs) ELSE <<>>
    /\ pc' = "download"
    /\ idx' = 1
    /\ UNCHANGED <<config, fs, storage, run, successful_uploads, downloaded_files,
                   deletion_success, file_status, result, history>>

\* Variant: main hands the requested list to the download step.
DownloadListRequested == UploadFiles

\* The list main hands to download_blobs_from_storage.
DownloadList == successful_uploads

\* Variant: the prefix is left out.
DownloadedNameBare(src_blob_name) == src_blob_name

DownloadedName(src_blob_name) == "downloaded_" \o src_blob_name

\* Variant: the local file is opened only once the blob has been fetched.
DownloadOpenLate(f, src_blob_name) == f

\* open(downloaded_filename, "wb"): the file is created, or truncated.
DownloadOpen(f, src_blob_name) == WriteFile(f, DownloadedName(src_blob_name), Empty)

\* Variant: the fetched bytes are never written.
DownloadWriteNothing(f, src_blob_name, content) == f

\* download_file.write(download_stream.readall())
DownloadWrite(f, src_blob_name, content) ==
    WriteFile(f, DownloadedName(src_blob_name), content)

\* Step 6, one iteration of the loop over the list handed in.
DownloadFile ==
    /\ pc = "download"
    /\ idx <= Len(DownloadList)
    /\ LET src_blob_name == DownloadList[idx] IN
       /\ dlAttempts' = Append(dlAttempts, src_blob_name)
       /\ \E ioerr \in BOOLEAN, fail \in BOOLEAN :
             IF ioerr
             THEN /\ fsError' = TRUE
                  /\ UNCHANGED <<fs, log, downloaded_files>>
             ELSE LET res == DownloadRes(containerExists, blobs, src_blob_name, fail)
                      opened == DownloadOpen(fs, src_blob_name)
                  IN
                  /\ log' = Append(log, Call("download_blob", src_blob_name, res))
                  /\ IF res = "ok"
                     THEN /\ fs' = DownloadWrite(opened, src_blob_name,
                                                 BlobContent(blobs, src_blob_name))
                          /\ downloaded_files' =
                                Append(downloaded_files, DownloadedName(src_blob_name))
                     ELSE /\ fs' = opened
                          /\ downloaded_files' = downloaded_files
                  /\ fsError' = fsError
    /\ idx' = idx + 1
    /\ UNCHANGED <<config, storage, pc, run, successful_uploads, blob_names,
                   deletion_success, file_status, result, fs0, preNames, uploadedData,
                   missingAtUpload>>

\* download_blobs_from_storage returns.
DownloadReturn ==
    /\ pc = "download"
    /\ idx > Len(DownloadList)
    /\ pc' = "delete"
    /\ UNCHANGED <<config, fs, storage, idx, run, summary, result, log, history>>

\* Variant: the except branch returns True as well.
DeleteOutcomeTrue(res) == TRUE

\* delete_container's return value: True from the try, False from the except.
DeleteOutcome(res) == res = "ok"

\* Step 7.
DeleteContainer ==
    /\ pc = "delete"
    /\ \E fail \in BOOLEAN :
          LET res == DeleteRes(containerExists, fail) IN
          /\ log' = Append(log, Call("delete_container", "mytestcontainer", res))
          /\ containerExists' = (containerExists /\ res # "ok")
          /\ blobs' = IF res = "ok" THEN {} ELSE blobs
          /\ deletion_success' = DeleteOutcome(res)
    /\ pc' = "verify"
    /\ UNCHANGED <<config, fs, idx, run, successful_uploads, blob_names, downloaded_files,
                   file_status, result, history>>

\* Step 8 and the return of the summary.
VerifyLocalFiles ==
    /\ pc = "verify"
    /\ file_status' = [f \in Range(ExpectedFiles) |-> FileExists(fs, f)]
    /\ pc' = "done"
    /\ result' = "summary"
    /\ UNCHANGED <<config, fs, storage, idx, run, successful_uploads, blob_names,
                   downloaded_files, deletion_success, log, history>>

Next ==
    \/ CreateSample1
    \/ CreateSample2
    \/ Configure
    \/ CreateBlobContainer
    \/ UploadFile
    \/ UploadReturn
    \/ ListBlobs
    \/ DownloadFile
    \/ DownloadReturn
    \/ DeleteContainer
    \/ VerifyLocalFiles

Spec == Init /\ [][Next]_vars

\* ------------------------------------------- the upload step run repeatedly

\* A local file is rewritten between two calls of upload_files_to_blob.
EditLocalFile ==
    /\ pc = "upload"
    /\ idx > Len(UploadFiles)
    /\ run < MaxRuns
    /\ \E f \in Range(UploadFiles), c \in {Sample1Text} \cup OldContents :
          /\ FileExists(fs, f)
          /\ fs[f] # c
          /\ fs' = WriteFile(fs, f, c)
    /\ UNCHANGED <<config, storage, pc, idx, run, summary, result, log, history>>

\* upload_files_to_blob is called again on the same list.
RerunUpload ==
    /\ pc = "upload"
    /\ idx > Len(UploadFiles)
    /\ run < MaxRuns
    /\ run' = run + 1
    /\ idx' = 1
    /\ successful_uploads' = <<>>
    /\ UNCHANGED <<config, fs, storage, pc, blob_names, downloaded_files, deletion_success,
                   file_status, result, log, history>>

\* A call of upload_files_to_blob: the files of the list exist or not, with any
\* content; the files the step never touches are left out.
InitUpload ==
    /\ account_url = ValidUrl
    /\ docx_available = TRUE
    /\ \E c \in InitFiles :
          /\ \A f \in LocalFiles \ Range(UploadFiles) : c[f] = Absent
          /\ fs = FsOf(c)
    /\ InitStorage
    /\ pc = "upload"
    /\ InitRun

NextUpload == UploadFile \/ EditLocalFile \/ RerunUpload

SpecUpload == InitUpload /\ [][NextUpload]_vars

\* ------------------------------------------------------------------ claims

IsPlaceholderRun == account_url \in PlaceholderUrls
Returned == pc = "done" /\ result = "summary"
Aborted == pc = "done" /\ result = "None"
HasCall(op, item, res) == \E i \in DOMAIN log : log[i] = Call(op, item, res)
CallsOf(op, item) == {i \in DOMAIN log : log[i].op = op /\ log[i].item = item}
CallsOfOp(op) == {i \in DOMAIN log : log[i].op = op}
AllCallsOk == \A i \in DOMAIN log : log[i].res = "ok"
Listed == pc \in {"download", "delete", "verify"} \/ Returned
Downloaded == pc \in {"delete", "verify"} \/ Returned

\* C1: a run whose account URL contains the placeholder makes no call on the
\* storage client (get/create container, upload, list, download, delete) and
\* ends with None, never with a summary.
C1_PlaceholderNoStorageCall ==
    IsPlaceholderRun =>
        /\ log = <<>>
        /\ result # "summary"
        /\ pc \in {"sample1", "sample2", "configure", "done"}
        /\ (pc = "done" => result = "None")

C1_Witness == IsPlaceholderRun /\ Aborted /\ account_url # DefaultUrl

\* C2: a run with a valid account URL always ends with a summary, whatever the
\* filesystem and the storage client do in steps 1 and 3-8.
C2_ValidUrlReturnsSummary ==
    (~IsPlaceholderRun /\ pc = "done") => result = "summary"

\* C3 as claimed: when a placeholder run aborts, no storage client call and no
\* local filesystem write has happened; the filesystem is as before the run.
C3_AbortBeforeAnyExternalCall ==
    (IsPlaceholderRun /\ Aborted) => (log = <<>> /\ fs = fs0)

\* C3 as amended: when a placeholder run aborts, no storage client call has
\* happened, and the local filesystem differs from the one before the run at
\* most by step 1's writes: sample files that were absent have been created
\* (sample2.txt possibly rewritten); every file that existed, sample2.txt
\* apart, has the content it had, and no other file has appeared.
C3_AbortBeforeAnyStorageCall ==
    (IsPlaceholderRun /\ Aborted) =>
        /\ log = <<>>
        /\ DOMAIN fs0 \subseteq DOMAIN fs
        /\ \A f \in DOMAIN fs0 \ {FallbackFile} : fs[f] = fs0[f]
        /\ (DOMAIN fs \ DOMAIN fs0) \subseteq SampleFiles

C3_Witness == IsPlaceholderRun /\ Aborted /\ fs # fs0 /\ log = <<>>

\* C4: a requested file that is absent when the upload step reaches it is not in
\* successful_uploads, is never uploaded, and no download is attempted for it:
\* no download_blob call and no 'downloaded_' file created or rewritten.
C4_MissingFileNeverDownloaded ==
    \A f \in missingAtUpload :
        /\ f \notin Range(successful_uploads)
        /\ CallsOf("upload_blob", f) = {}
        /\ CallsOf("download_blob", f) = {}
        /\ f \notin Range(dlAttempts)
        /\ ("downloaded_" \o f) \in DOMAIN fs =>
              /\ ("downloaded_" \o f) \in DOMAIN fs0
              /\ fs["downloaded_" \o f] = fs0["downloaded_" \o f]

C4_Witness ==
    /\ Returned
    /\ "sample2.docx" \in missingAtUpload
    /\ successful_uploads = <<"sample1.txt">>
    /\ downloaded_files = <<"downloaded_sample1.txt">>

\* The download step works through successful_uploads, once each and in order,
\* and downloaded_files holds 'downloaded_' + name only for names of
\* successful_uploads whose download_blob call succeeded.
DownloadsFollowUploads ==
    /\ Len(dlAttempts) <= Len(successful_uploads)
    /\ dlAttempts = SubSeq(successful_uploads, 1, Len(dlAttempts))
    /\ (Downloaded => dlAttempts = successful_uploads)
    /\ \A i \in CallsOfOp("download_blob") : log[i].item \in Range(successful_uploads)
    /\ \A i \in DOMAIN downloaded_files :
          \E n \in Range(successful_uploads) :
             /\ downloaded_files[i] = "downloaded_" \o n
             /\ HasCall("download_blob", n, "ok")

ScenarioSummary ==
    /\ result = "summary"
    /\ successful_uploads = UploadFiles
    /\ Range(UploadFiles) \subseteq Range(blob_names)
    /\ downloaded_files = <<"downloaded_sample1.txt", "downloaded_sample2.docx">>
    /\ deletion_success = TRUE

BothRequestedExist == \A f \in Range(UploadFiles) : f \in DOMAIN fs

C6_RoundTrip ==
    \A n \in Range(UploadFiles) :
        (HasCall("upload_blob", n, "ok") /\ HasCall("download_blob", n, "ok")) =>
            /\ n \in DOMAIN uploadedData
            /\ ("downloaded_" \o n) \in DOMAIN fs
            /\ fs["downloaded_" \o n] = uploadedData[n]

C6_Witness ==
    /\ Returned
    /\ HasCall("download_blob", "sample1.txt", "ok")
    /\ HasCall("download_blob", "sample2.docx", "ok")
    /\ "sample1.txt" \in preNames
    /\ fs["downloaded_sample1.txt"] # fs["downloaded_sample2.docx"]
    /\ fs["downloaded_sample1.txt"] # OldContent(1)
    /\ "downloaded_sample1.txt" \in DOMAIN fs0

\* C7 as claimed: once the listing step has run, blob_names holds exactly the
\* names of successful_uploads, as many as there were successful uploads.
C7_ListingMatchesUploads ==
    Listed =>
        /\ Range(blob_names) = Range(successful_uploads)
        /\ Len(blob_names) = Len(successful_uploads)

\* C7 as amended: when the list_blobs call succeeds, blob_names holds, once
\* each, the names of the blobs the container held before the run and the names
\* of successful_uploads, so for a container that held no blob it is exactly
\* successful_uploads (empty after zero uploads, N names after N); when the
\* list_blobs call fails, blob_names is empty.
C7_ListingMatchesContainer ==
    Listed =>
        IF HasCall("list_blobs", "mytestcontainer", "ok")
        THEN /\ Range(blob_names) = preNames \cup Range(successful_uploads)
             /\ Len(blob_names) = Cardinality(preNames \cup Range(successful_uploads))
             /\ preNames = {} =>
                   /\ Range(blob_names) = Range(successful_uploads)
                   /\ Len(blob_names) = Len(successful_uploads)
        ELSE blob_names = <<>>

C7_Witness ==
    /\ Returned
    /\ HasCall("create_container", "mytestcontainer", "ResourceExistsError")
    /\ preNames = {}
    /\ Len(successful_uploads) = 2
    /\ blob_names = UploadFiles

\* C8: calling the upload step again on the same list leaves one blob per
\* uploaded name, holding the bytes of its latest successful upload, and no
\* upload fails because the blob already exists.
C8_UploadIdempotent ==
    /\ \A n \in Range(BlobOrder) : Cardinality(BlobsNamed(blobs, n)) <= 1
    /\ \A n \in DOMAIN uploadedData :
          BlobsNamed(blobs, n) = {[name |-> n, content |-> uploadedData[n]]}
    /\ \A i \in CallsOfOp("upload_blob") : log[i].res # "ResourceExistsError"

C8_Witness ==
    /\ run = 2
    /\ idx > Len(UploadFiles)
    /\ \E n \in Range(UploadFiles) :
          /\ Cardinality({i \in CallsOf("upload_blob", n) : log[i].res = "ok"}) = 2
          /\ n \in DOMAIN fs0
          /\ uploadedData[n] # fs0[n]
          /\ BlobsNamed(blobs, n) = {[name |-> n, content |-> fs[n]]}

OpRank(op) ==
    CASE op = "get_container_client" -> 0
      [] op = "create_container" -> 1
      [] op = "upload_blob" -> 2
      [] op = "list_blobs" -> 3
      [] op = "download_blob" -> 4
      [] op = "delete_container" -> 5

Position(seq, x) == CHOOSE i \in DOMAIN seq : seq[i] = x

\* C9: a run that passes configuration makes its storage calls in the order
\* create-container, uploads, listing, downloads, delete-container, each at
\* most once per item and the items in list order; it is never aborted, so it
\* ends with a summary after exactly one create, one listing and one delete
\* call, and deletion_success tells whether that delete call succeeded.
C9_StrictOrderNoRetry ==
    /\ \A i, j \in DOMAIN log :
          i < j =>
             /\ OpRank(log[i].op) <= OpRank(log[j].op)
             /\ ~(log[i].op = log[j].op /\ log[i].item = log[j].item)
             /\ (log[i].op = log[j].op /\ log[i].op \in {"upload_blob", "download_blob"})
                   => Position(UploadFiles, log[i].item) < Position(UploadFiles, log[j].item)
    /\ (log # <<>> /\ pc = "done") => result = "summary"
    /\ (log # <<>> /\ pc \in {"verify", "done"}) =>
          /\ Cardinality(CallsOfOp("create_container")) = 1
          /\ Cardinality(CallsOfOp("list_blobs")) = 1
          /\ Cardinality(CallsOfOp("delete_container")) = 1
          /\ log[Len(log)].op = "delete_container"
          /\ deletion_success = (log[Len(log)].res = "ok")
    /\ (pc \notin {"verify", "done"}) => CallsOfOp("delete_container") = {}

C9_Witness ==
    /\ Returned
    /\ HasCall("upload_blob", "sample1.txt", "ServiceError")
    /\ HasCall("upload_blob", "sample2.docx", "ok")
    /\ HasCall("list_blobs", "mytestcontainer", "ServiceError")
    /\ HasCall("download_blob", "sample2.docx", "ServiceError")
    /\ HasCall("delete_container", "mytestcontainer", "ServiceError")
    /\ deletion_success = FALSE

DownloadFailed(n) ==
    \E i \in CallsOf("download_blob", n) : log[i].res # "ok"

\* C10: when the download_blob call for a name fails, the local file
\* 'downloaded_' + name exists afterwards and is empty, whatever it held before,
\* the name is not in downloaded_files, and the verification reports the file
\* as found.
C10_FailedDownloadLeavesEmptyFile ==
    \A n \in Range(UploadFiles) :
        DownloadFailed(n) =>
            /\ ("downloaded_" \o n) \in DOMAIN fs
            /\ fs["downloaded_" \o n] = Empty
            /\ ("downloaded_" \o n) \notin Range(downloaded_files)
            /\ Returned => file_status["downloaded_" \o n] = TRUE

C10_Witness ==
    /\ Returned
    /\ DownloadFailed("sample1.txt")
    /\ "downloaded_sample1.txt" \in DOMAIN fs0
    /\ fs0["downloaded_sample1.txt"] # Empty
    /\ fs["downloaded_sample1.txt"] = Empty
    /\ file_status["downloaded_sample1.txt"] = TRUE
    /\ "downloaded_sample1.txt" \notin Range(downloaded_files)
====
